---------------------------- MODULE Spec2Model ----------------------------
(***************************************************************************)
(* A model of the FurtrackAPI client (src/src/index.js): the tag           *)
(* classifier (parseTag, getTagsByType), the client configuration          *)
(* (apiKey, defaultHeaders and their setters) and the request facade        *)
(* (fetchJSON and the eight operations built on it).                        *)
(*                                                                         *)
(* Text is modelled as a sequence of tokens: a tag string is a sequence of *)
(* one-character tokens, a path or URL is the sequence of the pieces its   *)
(* template literal concatenates.  JavaScript values whose dynamic type    *)
(* matters are tagged records [t |-> type, v |-> payload].                 *)
(***************************************************************************)
EXTENDS Integers, Sequences, FiniteSets, TLC

VARIABLES
    apiKey,          \* this.apiKey
    defaultHeaders,  \* this.defaultHeaders: header name -> text
    authOverride,    \* history: the Authorization value a setHeaders call wrote
                     \* since the key was last configured (Undefined: none)
    calls,           \* the operations called on the client, one record per caller
    util             \* the last call of a pure tag utility and what it returned

vars == <<apiKey, defaultHeaders, authOverride, calls, util>>

(***************************************************************************)
(* Bounds of the model.                                                    *)
(***************************************************************************)
MaxTagLen == 3      \* longest tag string handed to parseTag
MaxTags == 2        \* longest tag list handed to getTagsByType
MaxPage == 2        \* largest page number handed to a paginated operation
MaxCalls == 2       \* callers with an operation in flight at the same time

(***************************************************************************)
(* JavaScript values.                                                      *)
(***************************************************************************)
Undefined == [t |-> "undefined"]
Null == [t |-> "null"]
Num(n) == [t |-> "number", v |-> n]
Str(s) == [t |-> "string", v |-> s]
Arr(a) == [t |-> "array", v |-> a]
Obj(f) == [t |-> "object", v |-> f]
ErrorValue(name, message) == [t |-> "error", v |-> [name |-> name, message |-> message]]

EmptyMap == <<>>

\* ToBoolean, as `if (x)` and `x || y` apply it
Truthy(x) ==
    CASE x.t = "undefined" -> FALSE
      [] x.t = "null" -> FALSE
      [] x.t = "number" -> x.v # 0
      [] x.t = "string" -> x.v # <<>>
      [] OTHER -> TRUE

\* ToString, as a template literal `${x}` applies it
ToText(x) ==
    CASE x.t = "undefined" -> <<"undefined">>
      [] x.t = "null" -> <<"null">>
      [] x.t = "number" -> <<ToString(x.v)>>
      [] x.t = "string" -> x.v
      [] OTHER -> <<"[object Object]">>

\* property read x.k: undefined for an absent key, a TypeError on null/undefined
HasProperty(x, k) == x.t = "object" /\ k \in DOMAIN x.v
CanRead(x) == x.t \notin {"undefined", "null"}
Get(x, k) == IF HasProperty(x, k) THEN x.v[k] ELSE Undefined

\* object spread { ...a, ...b } on header mappings
Spread(a, b) ==
    [k \in DOMAIN a \cup DOMAIN b |-> IF k \in DOMAIN b THEN b[k] ELSE a[k]]

(***************************************************************************)
(* Tag classifier.                                                         *)
(***************************************************************************)
TagTypes ==
    [Character |-> "character", Maker |-> "maker", Photographer |-> "photographer",
     Species |-> "species", Event |-> "event", General |-> "general"]

\* the object literal, as written: property keys with their values
tagTypePrefixes ==
    << <<(<<"1", ":">>), TagTypes.Character>>,
       <<(<<"2", ":">>), TagTypes.Maker>>,
       <<(<<"3", ":">>), TagTypes.Photographer>>,
       <<(<<"5", ":">>), TagTypes.Event>>,
       <<(<<"6">>), TagTypes.Species>> >>

Digits == {"0", "1", "2", "3", "4", "5", "6", "7", "8", "9"}

DigitValue(c) ==
    CASE c = "0" -> 0 [] c = "1" -> 1 [] c = "2" -> 2 [] c = "3" -> 3 [] c = "4" -> 4
      [] c = "5" -> 5 [] c = "6" -> 6 [] c = "7" -> 7 [] c = "8" -> 8 [] c = "9" -> 9

\* a property key that is a canonical array index ("6", not "1:" and not "06")
IsArrayIndex(key) ==
    /\ Len(key) > 0
    /\ \A i \in 1..Len(key) : key[i] \in Digits
    /\ (Len(key) > 1 => key[1] # "0")

RECURSIVE IndexValue(_)
IndexValue(key) ==
    IF key = <<>> THEN 0
    ELSE 10 * IndexValue(SubSeq(key, 1, Len(key) - 1)) + DigitValue(key[Len(key)])

RECURSIVE SortByIndex(_)
SortByIndex(entries) ==
    IF entries = <<>> THEN <<>>
    ELSE LET least == CHOOSE i \in 1..Len(entries) :
                          \A j \in 1..Len(entries) :
                              IndexValue(entries[i][1]) <= IndexValue(entries[j][1])
             rest == [j \in 1..(Len(entries) - 1) |->
                          IF j < least THEN entries[j] ELSE entries[j + 1]]
         IN <<entries[least]>> \o SortByIndex(rest)

IsIndexEntry(e) == IsArrayIndex(e[1])
IsNamedEntry(e) == ~IsArrayIndex(e[1])

\* Object.entries(o): own properties in the language's order, array-index keys
\* first in ascending numeric order, then the other keys in insertion order
InsertionOrderEntries(object) == object
ObjectEntries(object) ==
    SortByIndex(SelectSeq(object, IsIndexEntry)) \o SelectSeq(object, IsNamedEntry)

\* String.prototype.startsWith and String.prototype.slice(n), n >= 0
StartsWith(s, prefix) ==
    Len(prefix) <= Len(s) /\ SubSeq(s, 1, Len(prefix)) = prefix
SliceTwo(s, n) == SubSeq(s, 3, Len(s))
Slice(s, n) == SubSeq(s, n + 1, Len(s))

\* the for loop of parseTag over entries i.., with the prefixes tested so far
RECURSIVE parseTagLoop(_, _, _, _)
parseTagLoop(entries, i, tagString, tried) ==
    IF i > Len(entries)
    THEN [type |-> TagTypes.General, value |-> tagString, tried |-> tried]
    ELSE LET prefix == entries[i][1]
             type == entries[i][2]
         IN IF StartsWith(tagString, prefix)
            THEN [type |-> type, value |-> Slice(tagString, Len(prefix)),
                  tried |-> Append(tried, prefix)]
            ELSE parseTagLoop(entries, i + 1, tagString, Append(tried, prefix))

parseTagRun(tagString) == parseTagLoop(ObjectEntries(tagTypePrefixes), 1, tagString, <<>>)

parseTag(tagString) ==
    [type |-> parseTagRun(tagString).type, value |-> parseTagRun(tagString).value]

\* Array.prototype.map / filter as getTagsByType chains them
RECURSIVE MapParse(_)
MapParse(tags) ==
    IF tags = <<>> THEN <<>>
    ELSE <<parseTag(Head(tags).tagName)>> \o MapParse(Tail(tags))

RECURSIVE MapValue(_)
MapValue(parsed) ==
    IF parsed = <<>> THEN <<>> ELSE <<Head(parsed).value>> \o MapValue(Tail(parsed))

getTagsByTypeUnfiltered(tags, type) == MapValue(MapParse(tags))
getTagsByType(tags, type) ==
    LET Matches(parsed) == parsed.type = type
    IN MapValue(SelectSeq(MapParse(tags), Matches))

(***************************************************************************)
(* Inputs of the tag utilities.                                            *)
(***************************************************************************)
TagAlphabet == {"1", "2", "3", "5", "6", ":", "a"}

RECURSIVE StringsUpTo(_, _)
StringsUpTo(alphabet, n) ==
    IF n = 0 THEN {<<>>}
    ELSE LET shorter == StringsUpTo(alphabet, n - 1)
         IN shorter \cup {Append(s, c) : s \in shorter, c \in alphabet}

TagStrings == StringsUpTo(TagAlphabet, MaxTagLen)

SampleTagNames ==
    { <<"1", ":", "a">>, <<"2", ":", "a">>, <<"1", ":", "6">>, <<"6", "a">>,
      <<"6", ":">>, <<"5", ":">>, <<"a">>, <<"1">> }

TagRecords == {[tagName |-> s] : s \in SampleTagNames}

RECURSIVE ListsUpTo(_, _)
ListsUpTo(elements, n) ==
    IF n = 0 THEN {<<>>}
    ELSE LET shorter == ListsUpTo(elements, n - 1)
         IN shorter \cup {Append(l, e) : l \in shorter, e \in elements}

TagLists == ListsUpTo(TagRecords, MaxTags)

TypeArguments == {TagTypes[k] : k \in DOMAIN TagTypes} \cup {"unknown"}

NoUtil == [op |-> "none"]

\* the caller has the arguments of a tag utility in hand
TagCalls ==
    {[op |-> "parseTag", stage |-> "called", tagString |-> s] : s \in TagStrings}
    \cup {[op |-> "getTagsByType", stage |-> "called", tags |-> l, type |-> ty] :
              l \in TagLists, ty \in TypeArguments}

\* api.parseTag(tagString), which forwards to the static parseTag
ParseTagCall ==
    /\ util.op = "parseTag" /\ util.stage = "called"
    /\ util' = [op |-> "parseTag", stage |-> "returned", tagString |-> util.tagString,
                result |-> parseTag(util.tagString),
                tried |-> parseTagRun(util.tagString).tried]
    /\ UNCHANGED <<apiKey, defaultHeaders, authOverride, calls>>

\* FurtrackAPI.getTagsByType(tags, type); tags is the caller's array after the call
GetTagsByTypeCall ==
    /\ util.op = "getTagsByType" /\ util.stage = "called"
    /\ util' = [op |-> "getTagsByType", stage |-> "returned", tags |-> util.tags,
                type |-> util.type, result |-> getTagsByType(util.tags, util.type)]
    /\ UNCHANGED <<apiKey, defaultHeaders, authOverride, calls>>

(***************************************************************************)
(* Client configuration.                                                   *)
(***************************************************************************)
baseUrl == <<"https://solar.furtrack.com">>

BuiltinHeaders ==
    [k \in {"User-Agent", "Accept", "Referer", "Origin", "Accept-Language"} |->
        CASE k = "User-Agent" ->
                 <<"furtrack-api/1.0 (https://github.com/blumlaut/furtrack-api)">>
          [] k = "Accept" -> <<"application/json, text/plain, */*">>
          [] k = "Referer" -> <<"https://www.furtrack.com/">>
          [] k = "Origin" -> <<"https://www.furtrack.com">>
          [] k = "Accept-Language" -> <<"en-US,en;q=0.5">>]

\* the template literal `Bearer ${apiKey}`
Bearer(key) == <<"Bearer ">> \o ToText(key)

\* the property assignment object[name] = value
Assign(object, name, value) ==
    [k \in DOMAIN object \cup {name} |-> IF k = name THEN value ELSE object[k]]

\* new FurtrackAPI({ apiKey, headers })
Construct(key, headers) ==
    /\ apiKey = key
    /\ defaultHeaders =
           IF Truthy(key)
           THEN Assign(Spread(BuiltinHeaders, headers), "Authorization", Bearer(key))
           ELSE Spread(BuiltinHeaders, headers)
    /\ authOverride = Undefined

Idle == [stage |-> "idle"]

Slots == 1..MaxCalls

InFlight(call) == call.stage \in {"fetch", "json"}

\* this.defaultHeaders = <a new object>: the options of the calls in flight
\* keep their reference to the old object
DropReferences ==
    [i \in Slots |->
        IF InFlight(calls[i]) THEN [calls[i] EXCEPT !.aliased = FALSE] ELSE calls[i]]

setApiKeyKeepingHeader(key) ==
    /\ apiKey' = key
    /\ defaultHeaders' =
           IF "Authorization" \in DOMAIN defaultHeaders
           THEN defaultHeaders
           ELSE Assign(defaultHeaders, "Authorization", Bearer(key))
    /\ authOverride' = Undefined
    /\ UNCHANGED <<calls, util>>

setApiKeyRewritingRequests(key) ==
    /\ apiKey' = key
    /\ defaultHeaders' = Assign(defaultHeaders, "Authorization", Bearer(key))
    /\ authOverride' = Undefined
    /\ calls' = [i \in Slots |->
                    IF InFlight(calls[i]) /\ calls[i].aliased
                    THEN [calls[i] EXCEPT
                              !.headers = Assign(@, "Authorization", Bearer(key))]
                    ELSE calls[i]]
    /\ UNCHANGED util

setApiKey(key) ==
    /\ apiKey' = key
    /\ defaultHeaders' = Assign(defaultHeaders, "Authorization", Bearer(key))
    /\ authOverride' = Undefined
    /\ UNCHANGED <<calls, util>>

setHeadersReplacing(headers) ==
    /\ defaultHeaders' = headers
    /\ authOverride' =
           IF "Authorization" \in DOMAIN headers
           THEN Str(headers["Authorization"])
           ELSE authOverride
    /\ calls' = DropReferences
    /\ UNCHANGED <<apiKey, util>>

setHeaders(headers) ==
    /\ defaultHeaders' = Spread(defaultHeaders, headers)
    /\ authOverride' =
           IF "Authorization" \in DOMAIN headers
           THEN Str(headers["Authorization"])
           ELSE authOverride
    /\ calls' = DropReferences
    /\ UNCHANGED <<apiKey, util>>

(***************************************************************************)
(* Request facade: the synchronous part of a call, up to the dispatch of   *)
(* the request by fetch(url, fetchOptions).                                *)
(***************************************************************************)
\* { method: 'GET', agent: this.agent, headers: this.defaultHeaders, ...options }
fetchOptions(options) ==
    Spread([method |-> "GET", agent |-> "https.Agent", headers |-> defaultHeaders],
           options)

\* the caller of slot i has no operation pending
CanCall(i) == calls[i].stage \in {"idle", "fulfilled", "rejected"}

\* fetchJSON(path, options) called for operation op with arguments args:
\* builds the URL and the options and hands them to fetch, which builds and
\* issues the request (copying the headers of the options) before it returns.
\* aliased: the options hold a reference to the object this.defaultHeaders
\* names, not a copy; setApiKey assigns into that object.
fetchJSON(i, op, args, path, options) ==
    /\ CanCall(i)
    /\ calls' = [calls EXCEPT ![i] =
           [stage |-> "fetch", op |-> op, args |-> args,
            path |-> path, url |-> baseUrl \o path,
            method |-> fetchOptions(options).method,
            headers |-> fetchOptions(options).headers,
            aliased |-> "headers" \notin DOMAIN options,
            ownHeaders |-> "headers" \in DOMAIN options,
            requests |-> 1, status |-> 0, decoded |-> FALSE,
            body |-> Undefined, result |-> Undefined,
            cfgKey |-> apiKey, cfgHeaders |-> defaultHeaders,
            cfgOverride |-> authOverride]]
    /\ UNCHANGED <<apiKey, defaultHeaders, authOverride, util>>

EncodeToken(c) ==
    CASE c = "/" -> "%2F" [] c = ":" -> "%3A" [] c = " " -> "%20" [] c = "?" -> "%3F"
      [] OTHER -> c

\* encodeURIComponent(x): ToString, then reserved characters percent-encoded
encodeURIComponent(x) == [n \in 1..Len(ToText(x)) |-> EncodeToken(ToText(x)[n])]

\* a parameter with the default value 0
DefaultPage(page) == IF page = Undefined THEN Num(0) ELSE page

\* ${page > 0 ? `/${page}` : ''}
PageSuffixFromZero(page) == IF page.v >= 0 THEN <<"/">> \o ToText(page) ELSE <<>>
PageSuffix(page) == IF page.v > 0 THEN <<"/">> \o ToText(page) ELSE <<>>

getTag(i, tag) ==
    fetchJSON(i, "getTag", <<tag>>, <<"/get/index/">> \o encodeURIComponent(tag), EmptyMap)

getUser(i, username) ==
    fetchJSON(i, "getUser", <<username>>, <<"/get/u/">> \o encodeURIComponent(username), EmptyMap)

getPost(i, postId) ==
    fetchJSON(i, "getPost", <<postId>>, <<"/view/post/">> \o encodeURIComponent(postId), EmptyMap)

getPostsByTag(i, tag, page) ==
    fetchJSON(i, "getPostsByTag", <<tag, page>>,
              <<"/get/tag/">> \o encodeURIComponent(tag) \o PageSuffix(DefaultPage(page)),
              EmptyMap)

getPostsByUser(i, username, page) ==
    fetchJSON(i, "getPostsByUser", <<username, page>>,
              <<"/view/album/">> \o encodeURIComponent(username) \o <<"/3">>
                  \o PageSuffix(DefaultPage(page)),
              EmptyMap)

getLikes(i, username, page) ==
    fetchJSON(i, "getLikes", <<username, page>>,
              <<"/view/album/">> \o encodeURIComponent(username) \o <<"/o">>
                  \o PageSuffix(DefaultPage(page)),
              EmptyMap)

\* getThumbnail awaits this.getPost(postId)
getThumbnail(i, postId) ==
    fetchJSON(i, "getThumbnail", <<postId>>,
              <<"/view/post/">> \o encodeURIComponent(postId), EmptyMap)

getAlbum(i, username, albumId, page) ==
    fetchJSON(i, "getAlbum", <<username, albumId, page>>,
              <<"/view/album/">> \o encodeURIComponent(username) \o <<"/">>
                  \o encodeURIComponent(albumId) \o PageSuffix(DefaultPage(page)),
              EmptyMap)

\* fetchJSON called by the user of the library, with options of their own
FetchJSONCall(i, path, options) == fetchJSON(i, "fetchJSON", <<path, options>>, path, options)

(***************************************************************************)
(* Request facade: what runs when the awaited promises settle.             *)
(***************************************************************************)
\* res.ok of the fetch response
Ok(status) == status >= 200 /\ status <= 299

HttpError(status) == ErrorValue("Error", <<"HTTP error ", ToString(status)>>)
TransportError == ErrorValue("FetchError", <<"request failed">>)
DecodeError == ErrorValue("SyntaxError", <<"invalid json">>)
PropertyReadError == ErrorValue("TypeError", <<"cannot read properties">>)

Fulfilled(value) == [stage |-> "fulfilled", result |-> value]
Rejected(error) == [stage |-> "rejected", result |-> error]

\* response.posts || []
unwrapPostsVerbatim(response) ==
    IF ~CanRead(response) THEN Rejected(PropertyReadError)
    ELSE Fulfilled(Get(response, "posts"))
unwrapPosts(response) ==
    IF ~CanRead(response) THEN Rejected(PropertyReadError)
    ELSE IF Truthy(Get(response, "posts")) THEN Fulfilled(Get(response, "posts"))
    ELSE Fulfilled(Arr(<<>>))

\* the template literal of getThumbnail
thumbnailUrlSwapped(postData) ==
    IF ~CanRead(postData) THEN Rejected(PropertyReadError)
    ELSE Fulfilled(Str(<<"https://orca2.furtrack.com/gallery/">>
                       \o ToText(Get(postData, "id")) \o <<"/">>
                       \o ToText(Get(postData, "submitUserId")) \o <<"-">>
                       \o ToText(Get(postData, "metaFingerprint")) \o <<".">>
                       \o ToText(Get(postData, "metaFiletype"))))
thumbnailUrl(postData) ==
    IF ~CanRead(postData) THEN Rejected(PropertyReadError)
    ELSE Fulfilled(Str(<<"https://orca2.furtrack.com/gallery/">>
                       \o ToText(Get(postData, "submitUserId")) \o <<"/">>
                       \o ToText(Get(postData, "id")) \o <<"-">>
                       \o ToText(Get(postData, "metaFingerprint")) \o <<".">>
                       \o ToText(Get(postData, "metaFiletype"))))

\* what the operation does with the body fetchJSON returned
Continuation(op, body) ==
    CASE op \in {"getPostsByTag", "getPostsByUser", "getLikes"} -> unwrapPosts(body)
      [] op = "getThumbnail" -> thumbnailUrl(body)
      [] OTHER -> Fulfilled(body)

\* the promise of the operation settles; its options object is let go
Settle(i, outcome) ==
    calls' = [calls EXCEPT ![i].stage = outcome.stage, ![i].result = outcome.result,
                           ![i].aliased = FALSE]

\* await fetch(...) throws: the network exchange failed
FetchRejects(i) ==
    /\ calls[i].stage = "fetch"
    /\ Settle(i, Rejected(TransportError))
    /\ UNCHANGED <<apiKey, defaultHeaders, authOverride, util>>

\* a variant that issues the request a second time on an error status
FetchResolvesRetrying(i, status) ==
    /\ calls[i].stage = "fetch"
    /\ IF Ok(status)
       THEN calls' = [calls EXCEPT ![i].stage = "json", ![i].status = status]
       ELSE IF calls[i].requests < 2
       THEN calls' = [calls EXCEPT ![i].requests = @ + 1]
       ELSE calls' = [calls EXCEPT ![i].stage = "rejected", ![i].status = status,
                                   ![i].result = HttpError(status),
                                   ![i].aliased = FALSE]
    /\ UNCHANGED <<apiKey, defaultHeaders, authOverride, util>>

\* await fetch(...) returns a response: if (!res.ok) throw ...; return res.json()
FetchResolves(i, status) ==
    /\ calls[i].stage = "fetch"
    /\ IF Ok(status)
       THEN calls' = [calls EXCEPT ![i].stage = "json", ![i].status = status]
       ELSE calls' = [calls EXCEPT ![i].stage = "rejected", ![i].status = status,
                                   ![i].result = HttpError(status),
                                   ![i].aliased = FALSE]
    /\ UNCHANGED <<apiKey, defaultHeaders, authOverride, util>>

\* res.json() rejects: the body is not JSON
JsonRejects(i) ==
    /\ calls[i].stage = "json"
    /\ Settle(i, Rejected(DecodeError))
    /\ UNCHANGED <<apiKey, defaultHeaders, authOverride, util>>

\* res.json() resolves with the decoded body and the operation finishes
JsonResolves(i, body) ==
    /\ calls[i].stage = "json"
    /\ calls' = [calls EXCEPT ![i].decoded = TRUE, ![i].body = body,
                              ![i].stage = Continuation(calls[i].op, body).stage,
                              ![i].result = Continuation(calls[i].op, body).result,
                              ![i].aliased = FALSE]
    /\ UNCHANGED <<apiKey, defaultHeaders, authOverride, util>>

(***************************************************************************)
(* Inputs of the client.                                                   *)
(***************************************************************************)
Keys == {Str(<<"k">>), Str(<<"k2">>)}
ConstructorKeys == {Undefined, Str(<<>>), Str(<<"k">>)}
KeyInputs == Keys \cup {Str(<<>>)}

ConstructorHeaders ==
    { EmptyMap,
      [k \in {"Authorization", "X-Test"} |->
          IF k = "X-Test" THEN <<"bar">> ELSE <<"Basic c">>] }

HeaderInputs ==
    { [k \in {"X-Test"} |-> <<"foo">>],
      [k \in {"User-Agent"} |-> <<"custom-agent">>],
      [k \in {"Authorization"} |-> <<"Basic h">>],
      EmptyMap }

OptionInputs ==
    { EmptyMap,
      [k \in {"headers"} |-> [h \in {"Accept"} |-> <<"text/plain">>]],
      [k \in {"method"} |-> "HEAD"] }

Names == {Str(<<"foo">>), Str(<<"a", "/", "b">>)}
PostIds == {Num(99), Str(<<"9", "?">>)}
AlbumIds == {Str(<<"albumid">>), Num(0)}
Pages == {Undefined} \cup {Num(n) : n \in -1..MaxPage}
Statuses == {200, 201, 304, 404, 500}

ThumbnailFields ==
    [k \in {"submitUserId", "id", "metaFingerprint", "metaFiletype"} |->
        CASE k = "submitUserId" -> Num(42)
          [] k = "id" -> Num(99)
          [] k = "metaFingerprint" -> Str(<<"abc">>)
          [] k = "metaFiletype" -> Str(<<"jpg">>)]

PostObjects == {Obj([k \in present |-> ThumbnailFields[k]]) :
                    present \in SUBSET DOMAIN ThumbnailFields}

ListBodies ==
    { Obj([k \in {"posts"} |-> Arr(<<Num(1), Num(2)>>)]),
      Obj([k \in {"posts"} |-> Arr(<<>>)]),
      Obj([k \in {"posts"} |-> Null]),
      Obj([k \in {"posts"} |-> Num(0)]),
      Obj([k \in {"tag"} |-> Str(<<"data">>)]),
      Null, Num(7) }

Bodies == PostObjects \cup ListBodies

(***************************************************************************)
(* Specifications.                                                         *)
(***************************************************************************)
NoCalls == [i \in Slots |-> Idle]

Init ==
    /\ \E key \in ConstructorKeys, headers \in ConstructorHeaders : Construct(key, headers)
    /\ calls = NoCalls
    /\ util = NoUtil

\* new FurtrackAPI()
InitDefault ==
    /\ Construct(Undefined, EmptyMap)
    /\ calls = NoCalls
    /\ util = NoUtil

\* one caller, who reconfigures the client between and during calls
Next ==
    \/ \E key \in KeyInputs : setApiKey(key)
    \/ \E headers \in HeaderInputs : setHeaders(headers)
    \/ getTag(1, Str(<<"foo">>))
    \/ getUser(1, Str(<<"foo">>))
    \/ getPost(1, Num(99))
    \/ getPostsByTag(1, Str(<<"foo">>), Undefined)
    \/ getPostsByUser(1, Str(<<"foo">>), Num(1))
    \/ getLikes(1, Str(<<"foo">>), Num(1))
    \/ getThumbnail(1, Num(99))
    \/ getAlbum(1, Str(<<"foo">>), Str(<<"albumid">>), Undefined)
    \/ \E options \in OptionInputs : FetchJSONCall(1, <<"/get/index/foo">>, options)
    \/ \E status \in {200, 500} : FetchResolves(1, status)
    \/ JsonResolves(1, Obj(EmptyMap))

Spec == Init /\ [][Next]_vars

\* one caller, every operation on every input, every way a call can end
NextRequests ==
    \/ \E tag \in Names : getTag(1, tag)
    \/ \E username \in Names : getUser(1, username)
    \/ \E postId \in PostIds : getPost(1, postId)
    \/ \E tag \in Names, page \in Pages : getPostsByTag(1, tag, page)
    \/ \E username \in Names, page \in Pages : getPostsByUser(1, username, page)
    \/ \E username \in Names, page \in Pages : getLikes(1, username, page)
    \/ \E postId \in PostIds : getThumbnail(1, postId)
    \/ \E username \in Names, albumId \in AlbumIds, page \in Pages :
           getAlbum(1, username, albumId, page)
    \/ FetchRejects(1)
    \/ \E status \in Statuses : FetchResolves(1, status)
    \/ JsonRejects(1)
    \/ \E body \in Bodies : JsonResolves(1, body)

SpecRequests == InitDefault /\ [][NextRequests]_vars

\* several callers with operations in flight while the client is reconfigured
NextConcurrent ==
    \/ \E key \in Keys : setApiKey(key)
    \/ setHeaders([k \in {"X-Test"} |-> <<"foo">>])
    \/ \E i \in Slots : getPostsByTag(i, Str(<<"foo">>), Undefined)
    \/ \E i \in Slots : getThumbnail(i, Num(99))
    \/ \E i \in Slots, status \in {200, 500} : FetchResolves(i, status)
    \/ \E i \in Slots : JsonResolves(i, Obj(EmptyMap))

SpecConcurrent == InitDefault /\ [][NextConcurrent]_vars

\* the pure tag utilities, each applied to an input drawn up to the bounds
InitTags ==
    /\ Construct(Undefined, EmptyMap)
    /\ calls = NoCalls
    /\ util \in TagCalls

NextTags ==
    \/ ParseTagCall
    \/ GetTagsByTypeCall

SpecTags == InitTags /\ [][NextTags]_vars

(***************************************************************************)
(* Properties.                                                             *)
(***************************************************************************)
Called(call) == call.stage # "idle"

\* the request was built from the client's configuration alone
FromConfiguration(call) == Called(call) /\ ~call.ownHeaders

BearerOf(keyText) == <<"Bearer ">> \o keyText

\* C1 (as stated): once a key is configured, every request carries
\* Authorization = "Bearer " + the most recently configured key, whatever
\* constructor options, setApiKey and setHeaders calls came before it.
RequestsCarryLatestKey ==
    \A i \in Slots :
        (FromConfiguration(calls[i]) /\ Truthy(calls[i].cfgKey)) =>
            /\ "Authorization" \in DOMAIN calls[i].headers
            /\ calls[i].headers["Authorization"] = BearerOf(calls[i].cfgKey.v)

\* C1 (amended): once a non-empty key is configured, every request built from
\* the client's configuration carries Authorization = "Bearer " + the most
\* recently configured key, unless a setHeaders call made since the key was
\* configured wrote an Authorization entry of its own, which the request then
\* carries instead; one value only, the old token is not kept.
RequestsCarryLatestAuthorization ==
    \A i \in Slots :
        (FromConfiguration(calls[i]) /\ Truthy(calls[i].cfgKey)) =>
            /\ "Authorization" \in DOMAIN calls[i].headers
            /\ calls[i].headers["Authorization"] =
                   IF calls[i].cfgOverride = Undefined
                   THEN BearerOf(calls[i].cfgKey.v)
                   ELSE calls[i].cfgOverride.v

\* a request issued after setApiKey("k2") replaced the constructor's key "k"
RequestAfterSecondKey ==
    /\ Called(calls[1]) /\ ~calls[1].ownHeaders
    /\ calls[1].cfgKey = Str(<<"k2">>)
    /\ calls[1].cfgOverride = Undefined
    /\ calls[1].headers["Authorization"] = <<"Bearer ", "k2">>

\* C2: setHeaders(h) is a shallow merge: every key of h maps to h's value,
\* every other key keeps its value, and no key is lost.
SetHeadersMerges ==
    [][\A h \in HeaderInputs :
          setHeaders(h) =>
              /\ \A k \in DOMAIN h :
                     k \in DOMAIN defaultHeaders' /\ defaultHeaders'[k] = h[k]
              /\ \A k \in DOMAIN defaultHeaders \ DOMAIN h :
                     k \in DOMAIN defaultHeaders' /\ defaultHeaders'[k] = defaultHeaders[k]
              /\ DOMAIN defaultHeaders' = DOMAIN defaultHeaders \cup DOMAIN h]_vars

\* setHeaders({"X-Test": "foo"}) on a client that has a key: the new entry is
\* there beside the built-in User-Agent and the Authorization header
MergedBesideDefaults ==
    /\ "X-Test" \in DOMAIN defaultHeaders
    /\ defaultHeaders["X-Test"] = <<"foo">>
    /\ defaultHeaders["User-Agent"] = BuiltinHeaders["User-Agent"]
    /\ "Authorization" \in DOMAIN defaultHeaders
    /\ defaultHeaders["Authorization"] = <<"Bearer ", "k2">>

Returned(op) == util.op = op /\ util.stage = "returned"

DropFirst(s, n) == [i \in 1..(Len(s) - n) |-> s[i + n]]
BeginsWithColon(s, digit) == Len(s) >= 2 /\ s[1] = digit /\ s[2] = ":"

\* C3: a tag starting with "1:", "2:", "3:", "5:" parses to character, maker,
\* photographer, event with the two characters removed, a tag starting with
\* "6" to species with one character removed, any other tag to general with
\* the value unchanged.
ParseTagByPrefix ==
    Returned("parseTag") =>
        LET s == util.tagString
            r == util.result
        IN /\ BeginsWithColon(s, "1") => r = [type |-> "character", value |-> DropFirst(s, 2)]
           /\ BeginsWithColon(s, "2") => r = [type |-> "maker", value |-> DropFirst(s, 2)]
           /\ BeginsWithColon(s, "3") =>
                  r = [type |-> "photographer", value |-> DropFirst(s, 2)]
           /\ BeginsWithColon(s, "5") => r = [type |-> "event", value |-> DropFirst(s, 2)]
           /\ (Len(s) >= 1 /\ s[1] = "6") =>
                  r = [type |-> "species", value |-> DropFirst(s, 1)]
           /\ (/\ \A d \in {"1", "2", "3", "5"} : ~BeginsWithColon(s, d)
               /\ ~(Len(s) >= 1 /\ s[1] = "6")) =>
                  r = [type |-> "general", value |-> s]

\* parseTag("6:a") returned species with only the "6" removed
SpeciesTagParsed ==
    /\ Returned("parseTag")
    /\ util.tagString = <<"6", ":", "a">>
    /\ util.result = [type |-> "species", value |-> <<":", "a">>]

\* the rules in the order the table declares them
DeclaredRules ==
    << [prefix |-> <<"1", ":">>, type |-> "character"],
       [prefix |-> <<"2", ":">>, type |-> "maker"],
       [prefix |-> <<"3", ":">>, type |-> "photographer"],
       [prefix |-> <<"5", ":">>, type |-> "event"],
       [prefix |-> <<"6">>, type |-> "species"] >>

\* the order in which the table's properties are enumerated
EnumeratedPrefixes == << <<"6">>, <<"1", ":">>, <<"2", ":">>, <<"3", ":">>, <<"5", ":">> >>

IsPrefixOf(a, b) == Len(a) <= Len(b) /\ \A i \in 1..Len(a) : a[i] = b[i]

\* the reference: scan an ordered rule list and return on the first match
RECURSIVE FirstMatch(_, _)
FirstMatch(rules, s) ==
    IF rules = <<>> THEN [type |-> "general", value |-> s]
    ELSE IF IsPrefixOf(Head(rules).prefix, s)
    THEN [type |-> Head(rules).type, value |-> DropFirst(s, Len(Head(rules).prefix))]
    ELSE FirstMatch(Tail(rules), s)

\* every prefix tested before the last one did not match
StopsAtFirstMatch ==
    /\ \A n \in 1..(Len(util.tried) - 1) : ~IsPrefixOf(util.tried[n], util.tagString)
    /\ util.result.type # "general" =>
           /\ util.tried # <<>>
           /\ IsPrefixOf(util.tried[Len(util.tried)], util.tagString)
    /\ util.result.type = "general" =>
           \A n \in 1..Len(util.tried) : ~IsPrefixOf(util.tried[n], util.tagString)

\* C10 (as stated): parseTag tries the rules in declaration order ("1:", "2:",
\* "3:", "5:", "6"), the first match wins, and the result is that of a
\* reference scanning the declared list.
ParseTagTriesDeclaredOrder ==
    Returned("parseTag") =>
        /\ IsPrefixOf(util.tried, [n \in 1..Len(DeclaredRules) |-> DeclaredRules[n].prefix])
        /\ StopsAtFirstMatch
        /\ util.result = FirstMatch(DeclaredRules, util.tagString)

\* C10 (amended): parseTag tries the rules in the order the prefix table's
\* properties are enumerated ("6" first, then "1:", "2:", "3:", "5:"), the
\* first match wins, and the result is that of a reference scanning the
\* declared list ("1:", "2:", "3:", "5:", "6") and returning on the first match.
ParseTagTriesEnumerationOrder ==
    Returned("parseTag") =>
        /\ IsPrefixOf(util.tried, EnumeratedPrefixes)
        /\ StopsAtFirstMatch
        /\ util.result = FirstMatch(DeclaredRules, util.tagString)

\* parseTag("5:a") tested "6" first and all five prefixes before it matched
EventTagParsedLast ==
    /\ Returned("parseTag")
    /\ util.tagString = <<"5", ":", "a">>
    /\ util.tried = EnumeratedPrefixes
    /\ util.result = [type |-> "event", value |-> <<"a">>]

\* the values of the records of tags whose tagName parses to type, in order
RECURSIVE ValuesOfType(_, _)
ValuesOfType(tags, type) ==
    IF tags = <<>> THEN <<>>
    ELSE LET parsed == FirstMatch(DeclaredRules, tags[1].tagName)
             rest == ValuesOfType([n \in 1..(Len(tags) - 1) |-> tags[n + 1]], type)
         IN IF parsed.type = type THEN <<parsed.value>> \o rest ELSE rest

\* C8: getTagsByType returns exactly the parsed values of the records whose
\* tagName parses to the type, in input order with duplicates kept, the empty
\* sequence when none does, and changes neither its input nor the client.
GetTagsByTypeFilters ==
    /\ [](Returned("getTagsByType") =>
             /\ util.result = ValuesOfType(util.tags, util.type)
             /\ (\A n \in 1..Len(util.tags) :
                     FirstMatch(DeclaredRules, util.tags[n].tagName).type # util.type)
                    => util.result = <<>>)
    /\ [][GetTagsByTypeCall =>
              /\ util'.tags = util.tags
              /\ UNCHANGED <<apiKey, defaultHeaders, calls>>]_vars

\* getTagsByType of two equal character tags returned both values
DuplicateValuesKept ==
    /\ Returned("getTagsByType")
    /\ util.type = "character"
    /\ util.tags = << [tagName |-> <<"1", ":", "a">>], [tagName |-> <<"1", ":", "a">>] >>
    /\ util.result = << <<"a">>, <<"a">> >>

\* the page argument as the operation sees it: 0 when omitted
PageNumber(page) == IF page = Undefined THEN 0 ELSE page.v

\* the path templates of the paginated operations, without the page segment
BaseTemplate(call) ==
    CASE call.op = "getPostsByTag" -> <<"/get/tag/">> \o encodeURIComponent(call.args[1])
      [] call.op = "getPostsByUser" ->
             <<"/view/album/">> \o encodeURIComponent(call.args[1]) \o <<"/3">>
      [] call.op = "getLikes" ->
             <<"/view/album/">> \o encodeURIComponent(call.args[1]) \o <<"/o">>
      [] call.op = "getAlbum" ->
             <<"/view/album/">> \o encodeURIComponent(call.args[1]) \o <<"/">>
                 \o encodeURIComponent(call.args[2])

Paginated == {"getPostsByTag", "getPostsByUser", "getLikes", "getAlbum"}

PageArgument(call) == call.args[Len(call.args)]

\* C4: the path of getPostsByTag, getPostsByUser, getLikes and getAlbum is the
\* base template followed by "/" + page exactly when page > 0; with page 0 or
\* omitted (or negative) it is the base template and nothing more.
PageSegmentOnlyWhenPositive ==
    \A i \in Slots :
        (Called(calls[i]) /\ calls[i].op \in Paginated) =>
            LET page == PageNumber(PageArgument(calls[i]))
                base == BaseTemplate(calls[i])
            IN /\ page > 0 => calls[i].path = base \o <<"/", ToString(page)>>
               /\ page <= 0 => calls[i].path = base
               /\ (Len(calls[i].path) > Len(base)) <=> page > 0

\* getPostsByUser("foo", 2) requested /view/album/foo/3/2
SecondPageOfUserRequested ==
    /\ Called(calls[1])
    /\ calls[1].op = "getPostsByUser"
    /\ calls[1].args = <<Str(<<"foo">>), Num(2)>>
    /\ calls[1].path = <<"/view/album/", "foo", "/3", "/", "2">>

ListOperations == {"getPostsByTag", "getPostsByUser", "getLikes"}
VerbatimOperations == {"getTag", "getUser", "getPost", "getAlbum"}

HasPosts(body) == body.t = "object" /\ "posts" \in DOMAIN body.v

EmptySequence == Arr(<<>>)

\* C5 (as stated, for a body that is a JSON object): the list operations
\* return the posts field when the body has one and an empty sequence when it
\* has none; getTag, getUser, getPost and getAlbum return the body verbatim.
PostsFieldOrEmpty ==
    \A i \in Slots :
        (Called(calls[i]) /\ calls[i].decoded /\ calls[i].body.t = "object") =>
            /\ (calls[i].op \in ListOperations /\ HasPosts(calls[i].body)) =>
                   calls[i].stage = "fulfilled" /\ calls[i].result = calls[i].body.v["posts"]
            /\ (calls[i].op \in ListOperations /\ ~HasPosts(calls[i].body)) =>
                   calls[i].stage = "fulfilled" /\ calls[i].result = EmptySequence
            /\ calls[i].op \in VerbatimOperations =>
                   calls[i].stage = "fulfilled" /\ calls[i].result = calls[i].body

Falsy(value) ==
    \/ value.t \in {"undefined", "null"}
    \/ value.t = "number" /\ value.v = 0
    \/ value.t = "string" /\ value.v = <<>>

\* C5 (amended): for a body other than null, the list operations return the
\* posts field when the body has one and it is truthy, and an empty sequence
\* when it has none or the field is falsy (null, 0, ""); getTag, getUser,
\* getPost and getAlbum return the body verbatim.
TruthyPostsFieldOrEmpty ==
    \A i \in Slots :
        (Called(calls[i]) /\ calls[i].decoded) =>
            /\ (/\ calls[i].op \in ListOperations
                /\ HasPosts(calls[i].body)
                /\ ~Falsy(calls[i].body.v["posts"])) =>
                   calls[i].stage = "fulfilled" /\ calls[i].result = calls[i].body.v["posts"]
            /\ (/\ calls[i].op \in ListOperations
                /\ calls[i].body # Null
                /\ (HasPosts(calls[i].body) => Falsy(calls[i].body.v["posts"]))) =>
                   calls[i].stage = "fulfilled" /\ calls[i].result = EmptySequence
            /\ calls[i].op \in VerbatimOperations =>
                   calls[i].stage = "fulfilled" /\ calls[i].result = calls[i].body

\* getLikes on the body {posts: null} returned the empty sequence
NullPostsDefaulted ==
    /\ calls[1].stage = "fulfilled"
    /\ calls[1].op = "getLikes"
    /\ calls[1].body = Obj([k \in {"posts"} |-> Null])
    /\ calls[1].result = EmptySequence

Responded(call) == Called(call) /\ call.status # 0

Success(status) == status \in 200..299

\* C6: on a non-success status the operation fails with an error carrying the
\* status, the body is never decoded, and nothing is retried: every call
\* issues exactly one request, however it ends.
ErrorStatusFailsWithoutRetry ==
    \A i \in Slots :
        Called(calls[i]) =>
            /\ calls[i].requests = 1
            /\ (Responded(calls[i]) /\ ~Success(calls[i].status)) =>
                   /\ calls[i].stage = "rejected"
                   /\ calls[i].result.t = "error"
                   /\ calls[i].result.v.message = <<"HTTP error ", ToString(calls[i].status)>>
                   /\ ~calls[i].decoded
                   /\ calls[i].body = Undefined

\* getThumbnail failed with the 404 of its post fetch, after one request
ThumbnailFailedOnNotFound ==
    /\ calls[1].stage = "rejected"
    /\ calls[1].op = "getThumbnail"
    /\ calls[1].status = 404
    /\ calls[1].requests = 1
    /\ calls[1].result.v.message = <<"HTTP error ", "404">>

\* the text of the sample post's fields, "undefined" for an absent one
FieldText(body, field) ==
    IF body.t = "object" /\ field \in DOMAIN body.v
    THEN CASE field = "submitUserId" -> "42"
           [] field = "id" -> "99"
           [] field = "metaFingerprint" -> "abc"
           [] field = "metaFiletype" -> "jpg"
    ELSE "undefined"

\* C9: getThumbnail issues exactly one post fetch and returns
\* https://orca2.furtrack.com/gallery/{submitUserId}/{id}-{metaFingerprint}.{metaFiletype}
\* from the fetched post; a field the post omits leaves the placeholder
\* "undefined" in its position and the call still returns a URL.
ThumbnailUrlFromPost ==
    \A i \in Slots :
        (Called(calls[i]) /\ calls[i].op = "getThumbnail") =>
            /\ calls[i].requests = 1
            /\ calls[i].path = <<"/view/post/">> \o encodeURIComponent(calls[i].args[1])
            /\ (calls[i].decoded /\ calls[i].body # Null) =>
                   /\ calls[i].stage = "fulfilled"
                   /\ calls[i].result =
                          Str(<<"https://orca2.furtrack.com/gallery/",
                                FieldText(calls[i].body, "submitUserId"), "/",
                                FieldText(calls[i].body, "id"), "-",
                                FieldText(calls[i].body, "metaFingerprint"), ".",
                                FieldText(calls[i].body, "metaFiletype")>>)

\* getThumbnail on a post without metaFingerprint returned .../42/99-undefined.jpg
ThumbnailWithPlaceholder ==
    /\ calls[1].stage = "fulfilled"
    /\ calls[1].op = "getThumbnail"
    /\ DOMAIN calls[1].body.v = {"submitUserId", "id", "metaFiletype"}
    /\ calls[1].result =
           Str(<<"https://orca2.furtrack.com/gallery/", "42", "/", "99", "-",
                 "undefined", ".", "jpg">>)

=============================================================================
